---- MODULE Spec2Model ----
(***************************************************************************)
(* Model of public/app/features/alerting/unified/components/rule-editor/   *)
(* LabelsField.tsx: the label suggestion index built by useGetCustomLabels *)
(* and the label entry list edited through LabelsWithSuggestions and       *)
(* LabelsWithoutSuggestions.                                               *)
(*                                                                         *)
(* Conventions.  A JavaScript array is a sequence; the entry the code      *)
(* addresses as index i is position i + 1 here.  A JavaScript Set is a     *)
(* duplicate-free sequence in insertion order, and the plain object        *)
(* labelsByKey is a sequence of [key, set] records in insertion order of   *)
(* its own properties.  The value `undefined` is the string undefined      *)
(* below, which is no label key, label value or data source name.          *)
(***************************************************************************)
EXTENDS Integers, Sequences, FiniteSets, TLC

\* ---------------------------------------------------------------- bounds
MaxEntries == 3      \* longest label entry list
MaxIds == 3          \* field identifiers issued in one session
MaxNamespaces == 2   \* namespaces of a generated rule-group configuration
MaxGroups == 2       \* rule groups per namespace
MaxRules == 3        \* rules of a generated configuration, all groups together

undefined == "<undefined>"

\* Label keys and values of the fetched rules and of the user's edits.
\* "constructor" is a legal label name that is also a property every plain
\* object inherits from Object.prototype.
LabelKeys == {"sev", "team", "constructor"}
LabelValues == {"", "high", "low"}
EditKeys == {"sev", "constructor"}
EditValues == {"high"}
DataSourceNames == {undefined, "", "grafana"}

\* Properties a plain object literal `{}` inherits (Object.prototype); the
\* model keeps the one whose value is a function of length 1 (Object itself).
ObjectPrototypeKeys == {"constructor"}

\* JavaScript truthiness of a string-or-undefined value.
Boolean(v) == v # undefined /\ v # ""

Range(s) == {s[i] : i \in 1..Len(s)}

\* Flattening by one level, as flatMap does with what its callback returns.
RECURSIVE flat(_)
flat(ss) == IF ss = <<>> THEN <<>> ELSE Head(ss) \o flat(Tail(ss))

\* ------------------------------------------------- the suggestion index
\* labelsByKey[key]: an own property, an inherited one, or nothing.
OwnKeys(obj) == {obj[i].key : i \in 1..Len(obj)}

OwnSet(obj, key) ==
  obj[CHOOSE i \in 1..Len(obj) : obj[i].key = key].set

GetProperty(obj, key) ==
  IF key \in OwnKeys(obj)
    THEN [kind |-> "set", set |-> OwnSet(obj, key)]
  ELSE IF key \in ObjectPrototypeKeys
    THEN [kind |-> "inherited", set |-> <<>>]
  ELSE [kind |-> "undefined", set |-> <<>>]

\* Set.prototype.add
SetAdd(set, value) == IF value \in Range(set) THEN set ELSE Append(set, value)

\* One [key, value] pair of Object.entries(rule.labels), lines 55-66.  acc is
\* [threw, labelsByKey]; labelEntry.add on an inherited property that is no
\* Set raises a TypeError.
AddLabel_emptySetFirst(acc, key, value) ==
  LET labelEntry == GetProperty(acc.labelsByKey, key)
      created == IF labelEntry.kind = "undefined"
                   THEN Append(acc.labelsByKey, [key |-> key, set |-> <<>>])
                   ELSE acc.labelsByKey
  IN  IF labelEntry.kind = "inherited" THEN [acc EXCEPT !.threw = TRUE]
      ELSE IF ~Boolean(value) THEN [acc EXCEPT !.labelsByKey = created]
      ELSE [acc EXCEPT !.labelsByKey =
              [i \in 1..Len(created) |->
                 IF created[i].key = key
                   THEN [created[i] EXCEPT !.set = SetAdd(@, value)]
                   ELSE created[i]]]

AddLabel(acc, key, value) ==
  IF ~Boolean(value) THEN acc
  ELSE LET labelEntry == GetProperty(acc.labelsByKey, key)
       IN  IF labelEntry.kind = "set"
             THEN [acc EXCEPT !.labelsByKey =
                     [i \in 1..Len(acc.labelsByKey) |->
                        IF acc.labelsByKey[i].key = key
                          THEN [acc.labelsByKey[i] EXCEPT !.set = SetAdd(@, value)]
                          ELSE acc.labelsByKey[i]]]
           ELSE IF labelEntry.kind = "inherited"
             THEN [acc EXCEPT !.threw = TRUE]
           ELSE [acc EXCEPT !.labelsByKey =
                   Append(@, [key |-> key, set |-> <<value>>])]

RECURSIVE AddEntries(_, _)
AddEntries(acc, entries) ==
  IF acc.threw \/ entries = <<>> THEN acc
  ELSE AddEntries(AddLabel(acc, Head(entries)[1], Head(entries)[2]), Tail(entries))

RECURSIVE AddRules(_, _)
AddRules(acc, rules) ==
  IF acc.threw \/ rules = <<>> THEN acc
  ELSE AddRules(IF Head(rules).hasLabels
                  THEN AddEntries(acc, Head(rules).labels)
                  ELSE acc,
                Tail(rules))

\* Lines 49-51: Object.values(config).flatMap(groups => groups) and then
\* .flatMap(group => group.rules): every rule of every group of every
\* namespace, in order.
allRules(rulerRulesConfig) ==
  LET groups == flat(rulerRulesConfig)
  IN  flat([i \in 1..Len(groups) |-> groups[i].rules])

\* The callback of useMemo, lines 41-71, on a ruler request.
labelsByKeyResult(request) ==
  LET empty == [threw |-> FALSE, labelsByKey |-> <<>>]
  IN  IF ~(request.defined /\ request.hasResult) THEN empty
      ELSE AddRules(empty, allRules(request.result))

\* mapLabelsToOptions, lines 76-78, on what labelsByKey[key] evaluates to:
\* Array.from over a Set, over the default [] for undefined, or over the
\* array-like function Object (length 1, no element 0).
mapLabelsToOptions(items) ==
  LET elements == IF items.kind = "set" THEN items.set
                  ELSE IF items.kind = "inherited" THEN <<undefined>>
                  ELSE <<>>
  IN  [i \in 1..Len(elements) |-> [label |-> elements[i], value |-> elements[i]]]

\* Object.keys(labelsByKey), wrapped as an iterable of strings.
ObjectKeys(obj) ==
  [kind |-> "set", set |-> [i \in 1..Len(obj) |-> obj[i].key]]

\* Lines 138-143.
getValuesForLabel(obj, key) == mapLabelsToOptions(GetProperty(obj, key))

\* ------------------------------------------------------------- the state
VARIABLES
  dataSourceName,  \* the prop of LabelsField; undefined when not passed
  dispatched,      \* data source names passed to fetchRulerRulesIfNotFetchedYet
  rulerRequest,    \* state.rulerRules[dataSourceName] of the store
  fields,          \* useFieldArray: the field identifiers, in display order
  nextId,          \* identifiers issued so far
  labels,          \* watch('labels'): the form's [key, value] entries
  registered,      \* the `required` rule registered for each entry's two inputs
  selectedKey,     \* useState('')
  labelsByKey,     \* memoised result of useGetCustomLabels
  computed,        \* whether the index callback ever ran
  keys,            \* memoised key options
  values,          \* memoised value options for selectedKey
  crashed,         \* a render threw: the component is unmounted
  lastOp           \* history: the operation of the last step

vars == <<dataSourceName, dispatched, rulerRequest, fields, nextId, labels, registered,
          selectedKey, labelsByKey, computed, keys, values, crashed, lastOp>>

Op(name, index, arg) == [op |-> name, index |-> index, arg |-> arg]

noRequest == [defined |-> FALSE, loading |-> FALSE, hasResult |-> FALSE, result |-> <<>>]

\* Line 291: the variant rendered for the prop.
WithSuggestions == Boolean(dataSourceName)

\* Line 73 and line 151: rulerRequest?.loading, as the render tests it.
loading == rulerRequest.defined /\ rulerRequest.loading

\* The mode of the controller as the render shows it.
Mode ==
  IF ~WithSuggestions THEN "NoSuggestions"
  ELSE IF crashed THEN "Unmounted"
  ELSE IF loading THEN "Loading"
  ELSE "Ready"

\* The entry inputs and buttons exist only in a rendered list (lines 152-207;
\* always in LabelsWithoutSuggestions), and React flushes the mount effect
\* before it handles an input event.
Rendered ==
  /\ ~crashed
  /\ WithSuggestions => (dispatched # <<>> /\ ~loading)

\* labels[index]?.value and labels[index]?.key of lines 166, 186, 237, 252.
ValueAt(ls, i) == IF i \in 1..Len(ls) THEN ls[i].value ELSE undefined
KeyAt(ls, i) == IF i \in 1..Len(ls) THEN ls[i].key ELSE undefined

\* The options both variants pass to register for entry i.
RegisterRules_ownField(ls, i) ==
  [key   |-> [value |-> Boolean(KeyAt(ls, i)), message |-> "Required."],
   value |-> [value |-> Boolean(ValueAt(ls, i)), message |-> "Required."]]

RegisterRules(ls, i) ==
  [key   |-> [value |-> Boolean(ValueAt(ls, i)), message |-> "Required."],
   value |-> [value |-> Boolean(KeyAt(ls, i)), message |-> "Required."]]

\* useMemo: the callback's result when a dependency changed, else the old one.
useMemo(old, new, depsChanged) == IF depsChanged THEN new ELSE old

\* Lines 145-147: values depends on [selectedKey, getValuesForLabel].
valuesMemo(old, new, selectedKeyChanged, getValuesChanged) ==
  useMemo(old, new, selectedKeyChanged \/ getValuesChanged)

\* One render of LabelsWithSuggestions after the handlers changed the state:
\* useGetCustomLabels (line 130), the memos of lines 134-147, then the
\* registrations of lines 165-187.  A throw in the index callback leaves
\* every hook result as it was.
RenderWithSuggestions ==
  LET requestChanged == rulerRequest' # rulerRequest
      built == labelsByKeyResult(rulerRequest')
      threw == requestChanged /\ built.threw
      index == useMemo(labelsByKey, built.labelsByKey, requestChanged)
  IN  /\ crashed' = threw
      /\ computed' = TRUE
      /\ labelsByKey' = IF threw THEN labelsByKey ELSE index
      /\ keys' = IF threw THEN keys
                 ELSE useMemo(keys, mapLabelsToOptions(ObjectKeys(index)), requestChanged)
      /\ values' = IF threw THEN values
                   ELSE valuesMemo(values, getValuesForLabel(index, selectedKey'),
                                   selectedKey' # selectedKey, requestChanged)
      /\ registered' = IF threw THEN registered
                  ELSE [i \in 1..Len(fields') |-> RegisterRules(labels', i)]

\* One render of LabelsWithoutSuggestions: the registrations of lines 236-253.
RenderWithoutSuggestions ==
  /\ registered' = [i \in 1..Len(fields') |-> RegisterRules(labels', i)]
  /\ UNCHANGED <<labelsByKey, computed, keys, values, crashed>>

Render == IF WithSuggestions THEN RenderWithSuggestions ELSE RenderWithoutSuggestions

\* The state after the first render, before its effects ran.
Init ==
  /\ dataSourceName \in DataSourceNames
  /\ dispatched = <<>>
  /\ rulerRequest = noRequest
  /\ fields = <<>>
  /\ nextId = 0
  /\ labels = <<>>
  /\ registered = <<>>
  /\ selectedKey = ""
  /\ labelsByKey = <<>>
  /\ computed = WithSuggestions
  /\ keys = <<>>
  /\ values = <<>>
  /\ crashed = FALSE
  /\ lastOp = Op("init", 0, "")

\* ------------------------------------------------- the fetch collaborator
\* requestRuleGroupConfig: a no-op when the configuration is fetched already
\* or in flight, else the request goes out and the entry is loading.
RequestRuleGroupConfig(request) ==
  IF request.defined /\ (request.loading \/ request.hasResult) THEN request
  ELSE [defined |-> TRUE, loading |-> TRUE,
        hasResult |-> request.hasResult, result |-> request.result]

\* Configurations the collaborator reports in the editing sessions: no
\* namespace, or one namespace with one group of the rules below.
Rule(ls) == [hasLabels |-> TRUE, labels |-> ls]
NoLabelsRule == [hasLabels |-> FALSE, labels |-> <<>>]
OneGroup(rs) == << << [rules |-> rs] >> >>

FetchConfigs ==
  { <<>>,
    OneGroup(<<NoLabelsRule>>),
    OneGroup(<<Rule(<< <<"sev", "high">> >>)>>),
    OneGroup(<<Rule(<< <<"sev", "high">>, <<"team", "">> >>),
               Rule(<< <<"sev", "low">> >>)>>),
    << << [rules |-> <<Rule(<< <<"team", "low">> >>)>>] >>,
       << [rules |-> <<>>], [rules |-> <<Rule(<< <<"sev", "low">> >>)>>] >> >>,
    OneGroup(<<Rule(<< <<"constructor", "high">> >>)>>) }

\* ------------------------------------------------------------ operations
\* Lines 34-36: the mount effect dispatches the fetch for the data source.
MountEffect ==
  /\ WithSuggestions
  /\ ~crashed
  /\ dispatched = <<>>
  /\ dispatched' = Append(dispatched, dataSourceName)
  /\ rulerRequest' = RequestRuleGroupConfig(rulerRequest)
  /\ lastOp' = Op("mount", 0, "")
  /\ UNCHANGED <<dataSourceName, fields, nextId, labels, selectedKey>>
  /\ Render

\* The store entry changes and useUnifiedAlertingSelector re-renders.
StoreUpdate(request, name) ==
  /\ WithSuggestions
  /\ ~crashed
  /\ dispatched # <<>>
  /\ rulerRequest' = request
  /\ lastOp' = Op(name, 0, "")
  /\ UNCHANGED <<dataSourceName, dispatched, fields, nextId, labels, selectedKey>>
  /\ Render

\* A fresh fetch of the same data source starts (any part of the application).
FetchPending ==
  /\ rulerRequest.defined /\ ~rulerRequest.loading
  /\ StoreUpdate([rulerRequest EXCEPT !.loading = TRUE], "pending")

\* The collaborator reports a configuration: it replaces the result wholesale.
FetchFulfilled(config) ==
  /\ loading
  /\ StoreUpdate([defined |-> TRUE, loading |-> FALSE,
                  hasResult |-> TRUE, result |-> config], "fulfilled")

\* The fetch failed: the result is absent.
FetchRejected ==
  /\ loading
  /\ StoreUpdate([defined |-> TRUE, loading |-> FALSE,
                  hasResult |-> FALSE, result |-> <<>>], "rejected")

\* useFieldArray's append and remove on the identifiers and the form values.
append(list, entry) == Append(list, entry)

remove_last(list, i) == SubSeq(list, 1, Len(list) - 1)
remove(list, i) == SubSeq(list, 1, i - 1) \o SubSeq(list, i + 1, Len(list))

\* Lines 109-111: the "Add label" button.
AddButton_sameAsLast(ls) ==
  append(ls, IF ls = <<>> THEN [key |-> "", value |-> ""] ELSE ls[Len(ls)])
AddButton(ls) == append(ls, [key |-> "", value |-> ""])

AddEntry ==
  /\ Rendered
  /\ Len(fields) < MaxEntries
  /\ nextId < MaxIds
  /\ labels' = AddButton(labels)
  /\ fields' = append(fields, nextId)
  /\ nextId' = nextId + 1
  /\ lastOp' = Op("append", 0, "")
  /\ UNCHANGED <<dataSourceName, dispatched, rulerRequest, selectedKey>>
  /\ Render

\* Lines 91-93: the delete button rendered for the entry at index.
RemoveEntry(index) ==
  /\ Rendered
  /\ index \in 1..Len(fields)
  /\ labels' = remove(labels, index)
  /\ fields' = remove(fields, index)
  /\ lastOp' = Op("remove", index, "")
  /\ UNCHANGED <<dataSourceName, dispatched, rulerRequest, nextId, selectedKey>>
  /\ Render

\* setValue(`labels.${index}.key`, v) and setValue(`labels.${index}.value`, v).
setKey(ls, index, v) == [ls EXCEPT ![index].key = v]
setValue(ls, index, v) == [ls EXCEPT ![index].value = v]

\* Lines 170-173: onChange of the key dropdown.
OnChangeKey_keepSelected(index, newValue) ==
  /\ labels' = setKey(labels, index, newValue)
  /\ selectedKey' = selectedKey

OnChangeKey(index, newValue) ==
  /\ labels' = setKey(labels, index, newValue)
  /\ selectedKey' = newValue

SetEntryKey(index, newValue) ==
  /\ Rendered /\ WithSuggestions
  /\ index \in 1..Len(fields)
  /\ OnChangeKey(index, newValue)
  /\ lastOp' = Op("setEntryKey", index, newValue)
  /\ UNCHANGED <<dataSourceName, dispatched, rulerRequest, fields, nextId>>
  /\ Render

\* Lines 190-192: onChange of the value dropdown.
OnChangeValue(index, newValue) ==
  /\ labels' = setValue(labels, index, newValue)
  /\ selectedKey' = selectedKey

SetEntryValue(index, newValue) ==
  /\ Rendered /\ WithSuggestions
  /\ index \in 1..Len(fields)
  /\ OnChangeValue(index, newValue)
  /\ lastOp' = Op("setEntryValue", index, newValue)
  /\ UNCHANGED <<dataSourceName, dispatched, rulerRequest, fields, nextId>>
  /\ Render

\* Lines 193-195: onOpenMenu of the value dropdown.
OnOpenMenu_firstEntry(index) == selectedKey' = labels[1].key
OnOpenMenu(index) == selectedKey' = labels[index].key

OpenValueSuggestions(index) ==
  /\ Rendered /\ WithSuggestions
  /\ index \in 1..Len(fields)
  /\ OnOpenMenu(index)
  /\ lastOp' = Op("onOpenMenu", index, "")
  /\ UNCHANGED <<dataSourceName, dispatched, rulerRequest, fields, nextId, labels>>
  /\ Render

\* Lines 235-242 and 250-257: typing in the registered plain inputs.
InputKey(index, text) ==
  /\ Rendered /\ ~WithSuggestions
  /\ index \in 1..Len(fields)
  /\ labels' = setKey(labels, index, text)
  /\ lastOp' = Op("inputKey", index, text)
  /\ UNCHANGED <<dataSourceName, dispatched, rulerRequest, fields, nextId, selectedKey>>
  /\ Render

InputValue(index, text) ==
  /\ Rendered /\ ~WithSuggestions
  /\ index \in 1..Len(fields)
  /\ labels' = setValue(labels, index, text)
  /\ lastOp' = Op("inputValue", index, text)
  /\ UNCHANGED <<dataSourceName, dispatched, rulerRequest, fields, nextId, selectedKey>>
  /\ Render

Next ==
  \/ MountEffect
  \/ FetchPending
  \/ \E config \in FetchConfigs : FetchFulfilled(config)
  \/ FetchRejected
  \/ AddEntry
  \/ \E index \in 1..MaxEntries : RemoveEntry(index)
  \/ \E index \in 1..MaxEntries, newValue \in EditKeys : SetEntryKey(index, newValue)
  \/ \E index \in 1..MaxEntries, newValue \in EditValues : SetEntryValue(index, newValue)
  \/ \E index \in 1..MaxEntries : OpenValueSuggestions(index)
  \/ \E index \in 1..MaxEntries, text \in EditKeys \cup {""} : InputKey(index, text)
  \/ \E index \in 1..MaxEntries, text \in EditValues \cup {""} : InputValue(index, text)

Spec == Init /\ [][Next]_vars

\* --------------------------------------- the index builder on its own
\* Rules of the generated configurations: no labels mapping, an empty one,
\* or one label.
IndexRules ==
  {NoLabelsRule, Rule(<<>>)} \cup
  {Rule(<< <<k, v>> >>) : k \in LabelKeys, v \in LabelValues}

CountRules(config) == Len(allRules(config))

LastNamespace(config) == config[Len(config)]

WithGroup(config, group) ==
  [config EXCEPT ![Len(config)] = Append(@, group)]

WithRule(config, rule) ==
  [config EXCEPT ![Len(config)] =
     [@ EXCEPT ![Len(@)] = [rules |-> Append(@.rules, rule)]]]

\* The store holds no entry, an entry without result, or a configuration
\* with no namespaces; the configuration then grows one element at a time
\* and every new snapshot goes through the useMemo of lines 41-71.
InitIndex ==
  /\ dataSourceName = "grafana"
  /\ dispatched = <<"grafana">>
  /\ rulerRequest \in
       { noRequest,
         [defined |-> TRUE, loading |-> FALSE, hasResult |-> FALSE, result |-> <<>>],
         [defined |-> TRUE, loading |-> FALSE, hasResult |-> TRUE, result |-> <<>>] }
  /\ fields = <<>>
  /\ nextId = 0
  /\ labels = <<>>
  /\ registered = <<>>
  /\ selectedKey = ""
  /\ labelsByKey = <<>>
  /\ computed = TRUE
  /\ keys = <<>>
  /\ values = <<>>
  /\ crashed = FALSE
  /\ lastOp = Op("init", 0, "")

ReceiveNamespace ==
  /\ rulerRequest.hasResult
  /\ Len(rulerRequest.result) < MaxNamespaces
  /\ StoreUpdate([rulerRequest EXCEPT !.result = Append(@, <<>>)], "namespace")

ReceiveGroup ==
  /\ rulerRequest.hasResult
  /\ rulerRequest.result # <<>>
  /\ Len(LastNamespace(rulerRequest.result)) < MaxGroups
  /\ StoreUpdate([rulerRequest EXCEPT !.result = WithGroup(@, [rules |-> <<>>])],
                 "group")

ReceiveRule(rule) ==
  /\ rulerRequest.hasResult
  /\ rulerRequest.result # <<>>
  /\ LastNamespace(rulerRequest.result) # <<>>
  /\ CountRules(rulerRequest.result) < MaxRules
  /\ StoreUpdate([rulerRequest EXCEPT !.result = WithRule(@, rule)], "rule")

NextIndex ==
  \/ ReceiveNamespace
  \/ ReceiveGroup
  \/ \E rule \in IndexRules : ReceiveRule(rule)

SpecIndex == InitIndex /\ [][NextIndex]_vars

\* ------------------------------------------------------------ validation
valid == "valid"

\* react-hook-form's `required` check of a registered input.
IsEmptyInput(v) == v = undefined \/ v = ""

validateField(rule, v) == IF rule.value /\ IsEmptyInput(v) THEN rule.message ELSE valid

validateKey(index) == validateField(registered[index].key, labels[index].key)
validateValue(index) == validateField(registered[index].value, labels[index].value)

\* ---------------------------------------------------------------- claims
\* What the claims say the index holds for a key: the non-empty values v such
\* that some rule of some group of some namespace has labels[key] = v.
ClaimedValues(request, key) ==
  IF ~(request.defined /\ request.hasResult) THEN {}
  ELSE { v \in LabelValues \ {""} :
           \E n \in 1..Len(request.result) :
             \E g \in 1..Len(request.result[n]) :
               \E r \in 1..Len(request.result[n][g].rules) :
                 LET rule == request.result[n][g].rules[r]
                 IN  rule.hasLabels /\ <<key, v>> \in Range(rule.labels) }

ClaimedKeys(request) == {k \in LabelKeys : ClaimedValues(request, k) # {}}

NoDuplicates(s) == \A i, j \in 1..Len(s) : s[i] = s[j] => i = j

IndexIs(obj, request) ==
  /\ NoDuplicates([i \in 1..Len(obj) |-> obj[i].key])
  /\ OwnKeys(obj) = ClaimedKeys(request)
  /\ \A i \in 1..Len(obj) :
       /\ NoDuplicates(obj[i].set)
       /\ Range(obj[i].set) = ClaimedValues(request, obj[i].key)

OptionValues(options) == {options[i].value : i \in 1..Len(options)}

\* C1: for every rule-group configuration (undefined and no namespaces
\* included) buildSuggestionIndex returns, without raising, the mapping from
\* each key to exactly the non-empty values some rule gives it.
C1_IndexOfEveryConfig ==
  /\ ~crashed
  /\ IndexIs(labelsByKey, rulerRequest)

\* The same with the configurations whose rules use a key inherited from
\* Object.prototype set aside: there the callback raises.
IndexUnlessInheritedKey ==
  IF \E k \in ObjectPrototypeKeys : ClaimedValues(rulerRequest, k) # {}
    THEN crashed
    ELSE ~crashed /\ IndexIs(labelsByKey, rulerRequest)

IndexExample ==
  /\ rulerRequest.result =
       OneGroup(<<Rule(<< <<"sev", "high">> >>), Rule(<< <<"sev", "low">> >>),
                  Rule(<< <<"sev", "">> >>)>>)
  /\ labelsByKey = <<[key |-> "sev", set |-> <<"high", "low">>]>>

\* C2: in every reachable state the suggestion index maps every key it holds
\* to a non-empty value set.
C2_NoEmptyValueSet ==
  \A i \in 1..Len(labelsByKey) : labelsByKey[i].set # <<>>

\* An index with keys, built from rules one of which carries an empty value,
\* while entries are being edited.
C2_Witness ==
  /\ labelsByKey # <<>>
  /\ ClaimedKeys(rulerRequest) # {}
  /\ \E n \in 1..Len(rulerRequest.result) :
       \E g \in 1..Len(rulerRequest.result[n]) :
         \E r \in 1..Len(rulerRequest.result[n][g].rules) :
           \E l \in 1..Len(rulerRequest.result[n][g].rules[r].labels) :
             rulerRequest.result[n][g].rules[r].labels[l][2] = ""
  /\ lastOp.op = "setEntryValue"

\* C3: validateKey(i) reports "Required." exactly when entry i has an empty
\* key and a non-empty value, validateValue(i) exactly when it has an empty
\* value and a non-empty key, and an invalid entry blocks no add, remove or
\* set operation of the rendered list.
C3_RequiredExactlyWhenPairedFieldSet ==
  \A i \in 1..Len(labels) :
    /\ validateKey(i) \in {valid, "Required."}
    /\ validateValue(i) \in {valid, "Required."}
    /\ validateKey(i) = "Required." <=> (labels[i].key = "" /\ labels[i].value # "")
    /\ validateValue(i) = "Required." <=> (labels[i].value = "" /\ labels[i].key # "")
    /\ (Rendered /\ (validateKey(i) # valid \/ validateValue(i) # valid)) =>
         /\ \A j \in 1..Len(labels) : ENABLED RemoveEntry(j)
         /\ (Len(fields) < MaxEntries /\ nextId < MaxIds) => ENABLED AddEntry
         /\ WithSuggestions =>
              \A j \in 1..Len(labels) :
                /\ \A k \in EditKeys : ENABLED SetEntryKey(j, k)
                /\ \A v \in EditValues : ENABLED SetEntryValue(j, v)
         /\ ~WithSuggestions =>
              \A j \in 1..Len(labels) :
                /\ \A k \in EditKeys : ENABLED InputKey(j, k)
                /\ \A v \in EditValues : ENABLED InputValue(j, v)

\* One entry misses its key, another its value, a third is complete.
C3_Witness ==
  /\ Len(labels) = 3
  /\ \E i, j, k \in 1..3 :
       /\ validateKey(i) = "Required." /\ validateValue(i) = valid
       /\ validateValue(j) = "Required." /\ validateKey(j) = valid
       /\ labels[k].key # "" /\ labels[k].value # ""
       /\ validateKey(k) = valid /\ validateValue(k) = valid

\* C4: onOpenValueSuggestions(i) sets ActiveKey to the key entry i holds at
\* the call, whatever key was edited last, and changes no entry.
C4_OpenMenuSelectsKeyOfEntry ==
  [][lastOp'.op = "onOpenMenu" =>
       /\ lastOp'.index \in 1..Len(labels)
       /\ selectedKey' = labels[lastOp'.index].key
       /\ labels' = labels /\ fields' = fields]_vars

\* The value list of the first entry was opened after the second entry got
\* another key.
C4_Witness ==
  /\ lastOp = Op("onOpenMenu", 1, "")
  /\ Len(labels) >= 2
  /\ labels[1].key = "sev"
  /\ labels[2].key = "constructor"
  /\ selectedKey = "sev"

\* C5: at every point currentSuggestions() is the value set of ActiveKey in
\* the index of the most recently received configuration (empty when
\* ActiveKey is no key of it) and keySuggestions() is that index's key set.
C5_SuggestionsOfLatestConfig ==
  (WithSuggestions /\ ~crashed) =>
    /\ OptionValues(values) = ClaimedValues(rulerRequest, selectedKey)
    /\ OptionValues(keys) = ClaimedKeys(rulerRequest)

\* The same with the active keys inherited from Object.prototype set aside.
SuggestionsUnlessInheritedKey ==
  (WithSuggestions /\ ~crashed) =>
    /\ selectedKey \notin ObjectPrototypeKeys =>
         OptionValues(values) = ClaimedValues(rulerRequest, selectedKey)
    /\ OptionValues(keys) = ClaimedKeys(rulerRequest)

\* C6: setEntryKey(i, k) replaces the key of entry i and sets ActiveKey to k,
\* leaving the value of entry i, the other entries, the length, the order and
\* the index alone; setEntryValue(i, v) replaces only the value of entry i
\* and leaves ActiveKey alone.
C6_SetKeyAndSetValueFrame ==
  [][/\ lastOp'.op = "setEntryKey" =>
          /\ lastOp'.index \in 1..Len(labels)
          /\ Len(labels') = Len(labels)
          /\ labels'[lastOp'.index].key = lastOp'.arg
          /\ selectedKey' = lastOp'.arg
          /\ \A j \in 1..Len(labels) :
               /\ labels'[j].value = labels[j].value
               /\ j # lastOp'.index => labels'[j] = labels[j]
          /\ fields' = fields
          /\ labelsByKey' = labelsByKey /\ rulerRequest' = rulerRequest
     /\ lastOp'.op = "setEntryValue" =>
          /\ lastOp'.index \in 1..Len(labels)
          /\ Len(labels') = Len(labels)
          /\ labels'[lastOp'.index].value = lastOp'.arg
          /\ selectedKey' = selectedKey
          /\ \A j \in 1..Len(labels) :
               /\ labels'[j].key = labels[j].key
               /\ j # lastOp'.index => labels'[j] = labels[j]
          /\ fields' = fields
          /\ labelsByKey' = labelsByKey /\ rulerRequest' = rulerRequest]_vars

\* The key of the second of three entries was just replaced while the other
\* entries hold keys and values and the index holds keys.
C6_Witness ==
  /\ lastOp = Op("setEntryKey", 2, "constructor")
  /\ Len(labels) = 3
  /\ labels[2] = [key |-> "constructor", value |-> "high"]
  /\ labels[1] = [key |-> "sev", value |-> "high"]
  /\ selectedKey = "constructor"
  /\ labelsByKey # <<>>

\* C7: removeEntry(i) removes exactly the entry at position i: the list is
\* one shorter, the entries before i stay, those after i move down by one,
\* each with its key, value and identifier.
C7_RemoveShiftsLaterEntries ==
  [][lastOp'.op = "remove" =>
       LET i == lastOp'.index IN
         /\ i \in 1..Len(labels)
         /\ Len(labels') = Len(labels) - 1
         /\ Len(fields') = Len(fields) - 1
         /\ \A j \in 1..(i - 1) : labels'[j] = labels[j] /\ fields'[j] = fields[j]
         /\ \A j \in i..(Len(labels) - 1) :
              labels'[j] = labels[j + 1] /\ fields'[j] = fields[j + 1]]_vars

\* The first of three distinct entries was removed: the entries left are the
\* former second and third, with the identifiers issued to them.
C7_Witness ==
  /\ lastOp = Op("remove", 1, "")
  /\ fields = <<1, 2>>
  /\ labels = <<[key |-> "sev", value |-> ""], [key |-> "", value |-> "high"]>>

\* C9: addEntry() appends one entry with empty key and value at the end and
\* changes no other entry and not ActiveKey; one addEntry() on the empty list
\* followed by removeEntry(0) gives the empty list again.
C9_AddAppendsEmptyEntry ==
  [][/\ lastOp'.op = "append" =>
          /\ labels' = Append(labels, [key |-> "", value |-> ""])
          /\ Len(fields') = Len(fields) + 1
          /\ \A j \in 1..Len(fields) : fields'[j] = fields[j]
          /\ fields'[Len(fields')] \notin Range(fields)
          /\ selectedKey' = selectedKey
     /\ (lastOp.op = "append" /\ Len(labels) = 1 /\ lastOp'.op = "remove") =>
          (labels' = <<>> /\ fields' = <<>>)]_vars

\* An entry was appended after two entries that hold keys and values.
C9_Witness ==
  /\ lastOp.op = "append"
  /\ Len(labels) = 3
  /\ labels[1].key # "" /\ labels[2].value # ""
  /\ labels[3] = [key |-> "", value |-> ""]
  /\ selectedKey # ""

\* C10: the mode is fixed by the prop.  Without a data source name the
\* controller stays in NoSuggestions, requests no fetch and computes no
\* index.  With one it requests the fetch for that data source and goes from
\* Loading to Ready when the collaborator reports, with an empty index when
\* the fetch failed, and never to NoSuggestions.
C10_ModeLifecycle ==
  [][/\ dataSourceName' = dataSourceName
     /\ Mode = "NoSuggestions" =>
          /\ Mode' = "NoSuggestions"
          /\ dispatched' = <<>> /\ rulerRequest' = noRequest
          /\ ~computed' /\ labelsByKey' = <<>>
     /\ Mode # "NoSuggestions" =>
          /\ Mode' # "NoSuggestions"
          /\ dispatched' = <<dataSourceName>>
     /\ (Mode = "Loading" /\ lastOp'.op \in {"fulfilled", "rejected"}) =>
          Mode' = "Ready"
     /\ (Mode = "Loading" /\ lastOp'.op = "rejected") => labelsByKey' = <<>>]_vars

\* The same with a render that throws set aside.
ModeLifecycleUnlessCrashed ==
  [][/\ dataSourceName' = dataSourceName
     /\ Mode = "NoSuggestions" =>
          /\ Mode' = "NoSuggestions"
          /\ dispatched' = <<>> /\ rulerRequest' = noRequest
          /\ ~computed' /\ labelsByKey' = <<>>
     /\ Mode # "NoSuggestions" =>
          /\ Mode' # "NoSuggestions"
          /\ dispatched' = <<dataSourceName>>
     /\ (Mode = "Loading" /\ lastOp'.op \in {"fulfilled", "rejected"}) =>
          (Mode' = "Ready" \/ crashed')
     /\ (Mode = "Loading" /\ lastOp'.op = "rejected") => labelsByKey' = <<>>]_vars

====
